---------------------------- MODULE Spec2Model ----------------------------
(***************************************************************************)
(* Model of DataScrapping.py: the resumable, batched, thread-pooled        *)
(* box-office scraper.                                                     *)
(*                                                                         *)
(* Strings are sequences of one-character strings.  Catalog row numbers    *)
(* (start_row, batch_start, idx labels) keep Python's 0-based values; a    *)
(* TLA+ sequence position p holds the row at 0-based position p - 1.       *)
(* File writes (to_csv) are taken as one step each; an interrupt falls     *)
(* between steps.                                                          *)
(***************************************************************************)
EXTENDS Integers, Sequences, FiniteSets, TLC

\* ------------------------------------------------------------- bounds
MaxCatalog == 3     \* rows of the metadata file
MaxBatch   == 2     \* batch sizes 1..MaxBatch
MaxWorkers == 2     \* worker counts 1..MaxWorkers
MaxRuns    == 2     \* invocations of the script in one behaviour

\* ---------------------------------------------------------- constants
YearThreshold == 2010

\* ------------------------------------------------------------ strings
RECURSIVE RemoveChars(_, _)
\* str.replace(c, '') for every c of the set cs
RemoveChars(s, cs) ==
    IF s = <<>> THEN <<>>
    ELSE IF Head(s) \in cs THEN RemoveChars(Tail(s), cs)
         ELSE <<Head(s)>> \o RemoveChars(Tail(s), cs)

RECURSIVE ReplaceChar(_, _, _)
\* str.replace(a, b) for a one-character a and a string b
ReplaceChar(s, a, b) ==
    IF s = <<>> THEN <<>>
    ELSE (IF Head(s) = a THEN b ELSE <<Head(s)>>) \o ReplaceChar(Tail(s), a, b)

RECURSIVE CollapsePairs(_)
\* str.replace('__', '_'): one left-to-right pass over non-overlapping pairs
CollapsePairs(s) ==
    IF Len(s) < 2 THEN s
    ELSE IF s[1] = "_" /\ s[2] = "_"
         THEN <<"_">> \o CollapsePairs(SubSeq(s, 3, Len(s)))
         ELSE <<s[1]>> \o CollapsePairs(Tail(s))

RECURSIVE RStrip(_, _)
\* str.rstrip(c)
RStrip(s, c) ==
    IF s # <<>> /\ s[Len(s)] = c THEN RStrip(SubSeq(s, 1, Len(s) - 1), c) ELSE s

invalid_chars == {"<", ">", ":", "\"", "/", "\\", "|", "?", "*", "'"}

create_safe_filename(movie_name) ==
    RStrip(CollapsePairs(ReplaceChar(RemoveChars(movie_name, invalid_chars),
                                     " ", <<"_">>)), ".")

\* os.path.join(output_folder, f"{safe_movie_name}_daily.csv")
movie_filename(movie_name) ==
    <<"data/raw/completed_movies/">> \o create_safe_filename(movie_name)
        \o <<"_daily.csv">>

\* os.path.relpath(movie_filename, project_root): output_folder lies under
\* project_root, so the relative path is the same components
relative_path(movie_name) == movie_filename(movie_name)

\* url_name of scrape_daily_box_office
url_name(movie_name) ==
    ReplaceChar(ReplaceChar(RemoveChars(movie_name, {":"}), "&", <<"a", "n", "d">>),
                " ", <<"-">>)


\* ------------------------------------------------------------ fetcher
\* What one HTTP GET can bring back:
\*   error     requests.get or raise_for_status raised a RequestException
\*   nosection no 'Daily Box Office Performance' heading, or no table after it
\*   broken    a table without any <tr>: daily_table.find('tr') is None and
\*             .find_all raises AttributeError (not a RequestException)
\*   table     a table: hdr header cells, rows[i] the cell count of data row i
MaxCells == 2
MaxRows  == 2

RowSeqs == UNION {[1..n -> 1..MaxCells] : n \in 0..MaxRows}

Responses ==
    {[kind |-> "error", hdr |-> 0, rows |-> <<>>],
     [kind |-> "nosection", hdr |-> 0, rows |-> <<>>],
     [kind |-> "broken", hdr |-> 0, rows |-> <<>>]}
    \cup {[kind |-> "table", hdr |-> h, rows |-> r] : h \in 1..MaxCells, r \in RowSeqs}

\* f"https://www.the-numbers.com/movie/{url_name}-({year})#tab=box-office" and
\* the same without the year; year is <<y>> or <<>>
url_primary(movie_name, release_year) ==
    [name |-> url_name(movie_name), year |-> <<release_year>>]

url_secondary(movie_name, release_year) ==
    [name |-> url_name(movie_name), year |-> <<>>]

\* the two candidates in the other order
urls_swapped(movie_name, release_year) ==
    <<url_secondary(movie_name, release_year), url_primary(movie_name, release_year)>>

urls(movie_name, release_year) ==
    <<url_primary(movie_name, release_year), url_secondary(movie_name, release_year)>>

RECURSIVE KeptRowsAll(_, _, _)
\* every row, without the comparison of the cell counts
KeptRowsAll(rows, hdr, i) ==
    IF i > Len(rows) THEN <<>>
    ELSE <<[row |-> i, cells |-> rows[i]]>> \o KeptRowsAll(rows, hdr, i + 1)

RECURSIVE KeptRows(_, _, _)
\* the rows with len(row_data) == len(table_headers), each with its place in
\* the source table
KeptRows(rows, hdr, i) ==
    IF i > Len(rows) THEN <<>>
    ELSE (IF rows[i] = hdr THEN <<[row |-> i, cells |-> rows[i]]>> ELSE <<>>)
         \o KeptRows(rows, hdr, i + 1)

\* pd.DataFrame(all_data) with the Movie_Name column; page is the URL whose
\* document the rows were read from
DataFrame(movie_name, url, all_data) ==
    [Movie_Name |-> movie_name, page |-> url, rows |-> all_data]

NoDataFound == "No data found"
ExcMessage  == "exception"        \* str(e) of any other exception

RECURSIVE TryUrls(_, _, _, _, _)
\* the for-loop over urls, from candidate i on; tried lists the URLs requested
TryUrls(movie_name, us, i, web, tried) ==
    IF i > Len(us) THEN [df |-> <<>>, error |-> NoDataFound, tried |-> tried]
    ELSE LET url == us[i]
             r   == web[url]
             t   == Append(tried, url)
         IN CASE r.kind = "error" -> TryUrls(movie_name, us, i + 1, web, t)
              [] r.kind = "broken" -> [df |-> <<>>, error |-> ExcMessage, tried |-> t]
              [] r.kind = "table" /\ KeptRows(r.rows, r.hdr, 1) # <<>> ->
                    [df |-> <<DataFrame(movie_name, url, KeptRows(r.rows, r.hdr, 1))>>,
                     error |-> "", tried |-> t]
              [] OTHER -> TryUrls(movie_name, us, i + 1, web, t)

\* returns (df, error): df is <<>> for None, <<frame>> otherwise
scrape_daily_box_office(movie_name, release_year, web) ==
    TryUrls(movie_name, urls(movie_name, release_year), 1, web, <<>>)

\* ---------------------------------------------------------------- CSV
\* pandas' missing value, as a cell of the in-memory catalog
NaN == <<"<NaN>">>

isna(v) == v = NaN

\* DataFrame.to_csv writes a missing value as the empty field
to_csv_cell(v) == IF isna(v) THEN <<>> ELSE v

\* pd.read_csv reads the empty field (and its other NA spellings) as missing
na_values == {<<>>, <<"N", "A">>, <<"n", "a", "n">>}

\* a reader that keeps no path: every cell comes back missing
read_csv_cell_all_na(s) == NaN

read_csv_cell(s) == IF s \in na_values THEN NaN ELSE s

RECURSIVE LoadRows(_, _)
\* rows i.. of the file, as rows of the frame: the label idx of a row is its
\* 0-based row number in the file, and the rows before YearThreshold are
\* dropped without relabelling the others
LoadRows(file, i) ==
    IF i > Len(file) THEN <<>>
    ELSE (IF file[i].release_year >= YearThreshold
          THEN <<[idx |-> i - 1,
                  movie_name |-> file[i].original_title,
                  release_year |-> file[i].release_year,
                  daily_box_office_path |-> read_csv_cell(file[i].daily_box_office_path)]>>
          ELSE <<>>)
         \o LoadRows(file, i + 1)

load_and_validate_metadata(file) == LoadRows(file, 1)

\* a writer that leaves the path column out
catalog_to_csv_no_path(df) ==
    [p \in 1..Len(df) |->
        [original_title |-> df[p].movie_name,
         release_year |-> df[p].release_year,
         daily_box_office_path |-> <<>>]]

\* metadata_df.to_csv(metadata_path, index=False): the labels are not written
catalog_to_csv(df) ==
    [p \in 1..Len(df) |->
        [original_title |-> df[p].movie_name,
         release_year |-> df[p].release_year,
         daily_box_office_path |-> to_csv_cell(df[p].daily_box_office_path)]]

\* metadata_df.iloc[idx, ...] = path: the label taken for a position
set_path_iloc(df, idx, path) ==
    [p \in 1..Len(df) |->
        IF p - 1 = idx THEN [df[p] EXCEPT !.daily_box_office_path = path]
        ELSE df[p]]

\* metadata_df['daily_box_office_path'] = path: the whole column
set_path_column(df, idx, path) ==
    [p \in 1..Len(df) |-> [df[p] EXCEPT !.daily_box_office_path = path]]

\* metadata_df.loc[idx, 'daily_box_office_path'] = path
set_path(df, idx, path) ==
    [p \in 1..Len(df) |->
        IF df[p].idx = idx THEN [df[p] EXCEPT !.daily_box_office_path = path]
        ELSE df[p]]

\* ------------------------------------------------------------- worker
NoResult ==
    [success |-> FALSE, movie_name |-> <<>>, idx |-> -1, data |-> <<>>,
     path |-> <<>>, error |-> "", raised |-> FALSE]

\* a frame as it is kept and written: told apart by its Movie_Name column and
\* by the catalog position it was fetched for (history); its rows are not
\* followed further
Owned(df, pos) == [Movie_Name |-> df.Movie_Name, pos |-> pos]

\* process_movie_batch without its try/except: a failing to_csv leaves the
\* function as an exception, which future.result() raises in the coordinator
process_movie_batch_no_except(movie_data, web, write_ok) ==
    LET r == scrape_daily_box_office(movie_data.movie_name, movie_data.release_year, web)
    IN IF r.df # <<>>
       THEN [result |-> [success |-> write_ok, movie_name |-> movie_data.movie_name,
                         idx |-> movie_data.idx, data |-> r.df,
                         path |-> relative_path(movie_data.movie_name), error |-> "",
                         raised |-> ~write_ok],
             wrote |-> IF write_ok THEN <<movie_filename(movie_data.movie_name)>>
                       ELSE <<>>]
       ELSE [result |-> [success |-> FALSE, movie_name |-> movie_data.movie_name,
                         idx |-> movie_data.idx, data |-> <<>>, path |-> <<>>,
                         error |-> r.error, raised |-> FALSE],
             wrote |-> <<>>]

\* process_movie_batch without line 151: the success is returned, the movie's
\* CSV is not written
process_movie_batch_no_write(movie_data, web, write_ok) ==
    LET r == scrape_daily_box_office(movie_data.movie_name, movie_data.release_year, web)
    IN IF r.df # <<>>
       THEN [result |-> [success |-> TRUE, movie_name |-> movie_data.movie_name,
                         idx |-> movie_data.idx, data |-> r.df,
                         path |-> relative_path(movie_data.movie_name),
                         error |-> "", raised |-> FALSE],
             wrote |-> <<>>]
       ELSE [result |-> [success |-> FALSE, movie_name |-> movie_data.movie_name,
                         idx |-> movie_data.idx, data |-> <<>>, path |-> <<>>,
                         error |-> r.error, raised |-> FALSE],
             wrote |-> <<>>]

\* process_movie_batch: the result dict and the file it wrote (<<>> for none).
\* write_ok: whether movie_df.to_csv succeeds; when it raises, the except
\* clause turns the exception into a failure result.  raised: an exception
\* left the function (never, as every statement that can raise is in the try).
process_movie_batch(movie_data, web, write_ok) ==
    LET r == scrape_daily_box_office(movie_data.movie_name, movie_data.release_year, web)
    IN IF r.df # <<>>
       THEN IF write_ok
            THEN [result |-> [success |-> TRUE, movie_name |-> movie_data.movie_name,
                              idx |-> movie_data.idx, data |-> r.df,
                              path |-> relative_path(movie_data.movie_name),
                              error |-> "", raised |-> FALSE],
                  wrote |-> <<movie_filename(movie_data.movie_name)>>]
            ELSE [result |-> [success |-> FALSE, movie_name |-> movie_data.movie_name,
                              idx |-> movie_data.idx, data |-> <<>>, path |-> <<>>,
                              error |-> ExcMessage, raised |-> FALSE],
                  wrote |-> <<>>]
       ELSE [result |-> [success |-> FALSE, movie_name |-> movie_data.movie_name,
                         idx |-> movie_data.idx, data |-> <<>>, path |-> <<>>,
                         error |-> r.error, raised |-> FALSE],
             wrote |-> <<>>]

\* -------------------------------------------------------------- state
VARIABLES
    disk_catalog,     \* the metadata CSV at metadata_path
    disk_errlog,      \* error_log.csv: <<>> when absent, <<rows>> otherwise
    disk_combined,    \* all_movies_daily_data.csv: <<>> when absent, <<frames>>
    files,            \* the per-movie CSVs: file name -> <<>> or <<frame>>
    pc,               \* where the script is
    metadata_df,      \* the in-memory catalog
    start_row, batch_size, max_workers,
    batch_num,
    futures,          \* the current batch's futures, in submission order
    error_log,
    all_movies_data,
    runs,             \* invocations started so far
    fetched,          \* history: position -> fetches started in this run
    outcome,          \* history: position -> what its fetch returned in this run
    marked0,          \* history: positions whose path was set when this run loaded
    persisted,        \* history: batches of this run whose two saves completed
    persist_failed,   \* history: a save after a batch raised in this run
    combined_by,      \* history: the invocation that wrote the combined file
    prev_run,         \* history: how the previous invocation ended
    ever_success,     \* history: positions that returned success in any invocation
    f_in, f_out       \* the fetcher on its own: its input and its result

vars == <<disk_catalog, disk_errlog, disk_combined, files, pc, metadata_df,
          start_row, batch_size, max_workers, batch_num, futures, error_log,
          all_movies_data, runs, fetched, outcome, marked0, persisted,
          persist_failed, combined_by, prev_run, ever_success, f_in, f_out>>

disk == <<disk_catalog, disk_errlog, disk_combined, files>>
config == <<start_row, batch_size, max_workers>>
history == <<fetched, outcome, marked0, persisted, persist_failed, combined_by,
             prev_run, ever_success>>
fetcher == <<f_in, f_out>>

\* ------------------------------------------------------------- inputs
\* the titles of the metadata files checked: row i of a file holds the i-th
\* title of this list (taken round again past its end)
TitleList == << <<"A", ":", "B">>, <<"A", "B">>, <<"C", " ", ".">> >>

TitleAt(i) == TitleList[((i - 1) % Len(TitleList)) + 1]

Titles == {TitleList[i] : i \in 1..Len(TitleList)}

\* a metadata file that has never been scraped: 1..MaxCatalog rows, each of
\* 2015 or of 2009 (which load_and_validate_metadata drops), no path column
RawCatalogs ==
    UNION {{[i \in 1..n |->
                [original_title |-> TitleAt(i), release_year |-> ys[i],
                 daily_box_office_path |-> <<>>]] :
             ys \in [1..n -> {2009, 2015}]} : n \in 1..MaxCatalog}

FileNames == {movie_filename(t) : t \in Titles}

\* the documents the site serves while the batches run
MainResponses ==
    {[kind |-> "error", hdr |-> 0, rows |-> <<>>],
     [kind |-> "nosection", hdr |-> 0, rows |-> <<>>],
     [kind |-> "broken", hdr |-> 0, rows |-> <<>>],
     [kind |-> "table", hdr |-> 1, rows |-> <<1>>]}

Webs(movie_name, release_year, responses) ==
    [{url_primary(movie_name, release_year), url_secondary(movie_name, release_year)}
        -> responses]

PosOf(df, idx) == CHOOSE p \in 1..Len(df) : df[p].idx = idx

NoRun == [how |-> "none", start_row |-> 0, succeeded |-> {}, failed |-> {}]

Running == {"loop", "pool", "save_errlog", "combine"}
Stopped == {"idle", "done", "crashed", "raised", "interrupted"}

Succeeded == {p \in DOMAIN outcome : outcome[p] = "Success"}
Failed == {p \in DOMAIN outcome : outcome[p] = "Failure"}

\* --------------------------------------------------------------- Init
Init ==
    /\ disk_catalog \in RawCatalogs
    /\ disk_errlog = <<>>
    /\ disk_combined = <<>>
    /\ files = [f \in FileNames |-> <<>>]
    /\ pc = "idle"
    /\ metadata_df = <<>>
    /\ start_row = 0 /\ batch_size = 1 /\ max_workers = 1
    /\ batch_num = 0
    /\ futures = <<>>
    /\ error_log = <<>>
    /\ all_movies_data = <<>>
    /\ runs = 0
    /\ fetched = <<>>
    /\ outcome = <<>>
    /\ marked0 = {}
    /\ persisted = 0
    /\ persist_failed = FALSE
    /\ combined_by = 0
    /\ prev_run = NoRun
    /\ ever_success = {}
    /\ f_in = <<>> /\ f_out = <<>>

\* ------------------------------------------------------ the script
\* The module-level script: load the catalog, read the three integers, print
\* the movie at the starting row, call parallel_scrape_movies.
Main(sr, bs, mw) ==
    /\ pc \in Stopped
    /\ runs < MaxRuns
    /\ runs' = runs + 1
    /\ prev_run' = IF pc = "done"
                   THEN [how |-> pc, start_row |-> start_row,
                         succeeded |-> Succeeded, failed |-> Failed]
                   ELSE [NoRun EXCEPT !.how = pc]
    /\ LET df == load_and_validate_metadata(disk_catalog)
       IN /\ metadata_df' = df
          /\ marked0' = {p \in 1..Len(df) : ~isna(df[p].daily_box_office_path)}
          /\ fetched' = [p \in 1..Len(df) |-> 0]
          /\ outcome' = [p \in 1..Len(df) |-> "none"]
          \* metadata_df.iloc[start_row] raises IndexError past the end
          /\ pc' = IF sr >= Len(df) THEN "crashed" ELSE "loop"
    /\ start_row' = sr /\ batch_size' = bs /\ max_workers' = mw
    /\ batch_num' = 0
    /\ futures' = <<>>
    /\ error_log' = <<>>
    /\ all_movies_data' = <<>>
    /\ persisted' = 0
    /\ persist_failed' = FALSE
    /\ UNCHANGED <<disk, combined_by, ever_success, fetcher>>

total_rows == Len(metadata_df) - start_row
total_batches == (total_rows + batch_size - 1) \div batch_size
\* the windows counted from the first row, whatever the start row
batch_start_from_zero == batch_num * batch_size

batch_start == start_row + (batch_num * batch_size)
batch_end == IF batch_start + batch_size < Len(metadata_df)
             THEN batch_start + batch_size ELSE Len(metadata_df)
\* metadata_df.iloc[batch_start:batch_end]
batch_df == SubSeq(metadata_df, batch_start + 1, batch_end)

\* the list comprehension without its if clause
batch_data_unfiltered ==
    [i \in 1..Len(batch_df) |->
        [movie_name |-> batch_df[i].movie_name,
         release_year |-> batch_df[i].release_year,
         idx |-> batch_df[i].idx]]

\* the comprehension over the batch's rows taken from the last to the first
batch_data_reversed ==
    LET todo == SelectSeq(batch_df, LAMBDA row : isna(row.daily_box_office_path))
    IN [i \in 1..Len(todo) |->
           [movie_name |-> todo[Len(todo) + 1 - i].movie_name,
            release_year |-> todo[Len(todo) + 1 - i].release_year,
            idx |-> todo[Len(todo) + 1 - i].idx]]

\* the rows of the batch whose path is missing, in the batch's order
batch_data ==
    LET todo == SelectSeq(batch_df, LAMBDA row : isna(row.daily_box_office_path))
    IN [i \in 1..Len(todo) |->
           [movie_name |-> todo[i].movie_name,
            release_year |-> todo[i].release_year,
            idx |-> todo[i].idx]]

\* The top of the for-loop over batch_num: leave it after the last batch, skip
\* a batch with nothing to do, or submit the batch to a new pool.
NextBatch ==
    /\ pc = "loop"
    /\ IF batch_num >= total_batches
       THEN /\ pc' = "combine"
            /\ UNCHANGED <<batch_num, futures>>
       ELSE IF batch_data = <<>>
       THEN /\ batch_num' = batch_num + 1
            /\ UNCHANGED <<pc, futures>>
       ELSE /\ futures' = [i \in 1..Len(batch_data) |->
                              [movie_data |-> batch_data[i], st |-> "pending",
                               result |-> NoResult]]
            /\ pc' = "pool"
            /\ UNCHANGED batch_num
    /\ UNCHANGED <<disk, metadata_df, config, error_log, all_movies_data, runs,
                   history, fetcher>>

InFlight == {i \in 1..Len(futures) : futures[i].st = "running"}
Pending == {i \in 1..Len(futures) : futures[i].st = "pending"}

\* A pool thread takes the oldest queued task, while fewer than max_workers
\* threads are busy.
WorkerStart ==
    /\ pc = "pool"
    /\ Pending # {}
    /\ Cardinality(InFlight) < max_workers
    /\ LET i == CHOOSE j \in Pending : \A k \in Pending : j <= k
           p == PosOf(metadata_df, futures[i].movie_data.idx)
       IN /\ futures' = [futures EXCEPT ![i].st = "running"]
          /\ fetched' = [fetched EXCEPT ![p] = @ + 1]
    /\ UNCHANGED <<disk, pc, metadata_df, config, batch_num, error_log,
                   all_movies_data, runs, outcome, marked0, persisted,
                   persist_failed, combined_by, prev_run, ever_success, fetcher>>

\* A pool thread runs process_movie_batch to its return: the fetch, the write
\* of the movie's CSV, the result.
WorkerFinish(i) ==
    /\ pc = "pool"
    /\ i \in InFlight
    /\ LET md == futures[i].movie_data
           p  == PosOf(metadata_df, md.idx)
       IN \E out \in {process_movie_batch(md, web, write_ok) :
                         web \in Webs(md.movie_name, md.release_year, MainResponses),
                         write_ok \in BOOLEAN} :
               /\ futures' = [futures EXCEPT ![i].st = "finished",
                                             ![i].result = out.result]
               /\ files' = IF out.wrote = <<>> THEN files
                           ELSE [files EXCEPT ![out.wrote[1]] =
                                    <<Owned(out.result.data[1], p)>>]
               /\ outcome' = [outcome EXCEPT ![p] =
                                 IF out.result.raised THEN "Exception"
                                 ELSE IF out.result.success THEN "Success"
                                 ELSE "Failure"]
               /\ ever_success' = IF out.result.success
                                  THEN ever_success \cup {p} ELSE ever_success
    /\ UNCHANGED <<disk_catalog, disk_errlog, disk_combined, pc, metadata_df,
                   config, batch_num, error_log, all_movies_data, runs, fetched,
                   marked0, persisted, persist_failed, combined_by, prev_run,
                   fetcher>>

\* all_movies_data.insert(0, ...) in place of append
prepend_data(all, df) == <<df>> \o all

\* all_movies_data.append(result['data'])
append_data(all, df) == Append(all, df)

\* One turn of the loop over as_completed(futures): future.result() returns
\* the worker's result or raises what the worker raised.
Collect(i) ==
    /\ pc = "pool"
    /\ i \in 1..Len(futures)
    /\ futures[i].st = "finished"
    /\ LET result == futures[i].result
           p == PosOf(metadata_df, result.idx)
       IN IF result.raised
          THEN /\ pc' = "raised"
               /\ UNCHANGED <<all_movies_data, metadata_df, error_log>>
          ELSE IF result.success
          THEN /\ all_movies_data' =
                      append_data(all_movies_data, Owned(result.data[1], p))
               /\ metadata_df' = set_path(metadata_df, result.idx, result.path)
               /\ UNCHANGED <<error_log, pc>>
          ELSE /\ error_log' = Append(error_log,
                                  [movie |-> result.movie_name,
                                   error |-> result.error,
                                   row |-> result.idx])
               /\ UNCHANGED <<all_movies_data, metadata_df, pc>>
    /\ futures' = [futures EXCEPT ![i].st = "yielded"]
    /\ UNCHANGED <<disk, config, batch_num, runs, history, fetcher>>

\* the with-block left as soon as one result has been collected
AnyYielded == \E i \in 1..Len(futures) : futures[i].st = "yielded"

\* as_completed is exhausted and the with-block has joined the pool's threads
AllYielded == \A i \in 1..Len(futures) : futures[i].st = "yielded"

\* the save wrapped in a try/except that prints and goes on
SaveCatalogSwallow(io_ok) ==
    /\ pc = "pool"
    /\ AllYielded
    /\ pc' = "save_errlog"
    /\ IF io_ok
       THEN /\ disk_catalog' = catalog_to_csv(metadata_df)
            /\ UNCHANGED persist_failed
       ELSE /\ persist_failed' = TRUE
            /\ UNCHANGED disk_catalog
    /\ UNCHANGED <<disk_errlog, disk_combined, files, metadata_df, config,
                   batch_num, futures, error_log, all_movies_data, runs, fetched,
                   outcome, marked0, persisted, combined_by, prev_run,
                   ever_success, fetcher>>

\* metadata_df.to_csv(metadata_path, index=False) after the pool has shut down;
\* io_ok: whether the write succeeds.  It is in no try block: the exception
\* leaves parallel_scrape_movies and the script re-raises it.
SaveCatalog(io_ok) ==
    /\ pc = "pool"
    /\ AllYielded
    /\ IF io_ok
       THEN /\ disk_catalog' = catalog_to_csv(metadata_df)
            /\ pc' = "save_errlog"
            /\ UNCHANGED persist_failed
       ELSE /\ pc' = "raised"
            /\ persist_failed' = TRUE
            /\ UNCHANGED disk_catalog
    /\ UNCHANGED <<disk_errlog, disk_combined, files, metadata_df, config,
                   batch_num, futures, error_log, all_movies_data, runs, fetched,
                   outcome, marked0, persisted, combined_by, prev_run,
                   ever_success, fetcher>>

\* the save of a frame built from a new, empty list in place of error_log
SaveErrorLogEmpty(io_ok) ==
    /\ pc = "save_errlog"
    /\ IF io_ok
       THEN /\ disk_errlog' = << <<>> >>
            /\ pc' = "loop"
            /\ batch_num' = batch_num + 1
            /\ persisted' = persisted + 1
            /\ UNCHANGED persist_failed
       ELSE /\ pc' = "raised"
            /\ persist_failed' = TRUE
            /\ UNCHANGED <<disk_errlog, batch_num, persisted>>
    /\ UNCHANGED <<disk_catalog, disk_combined, files, metadata_df, config,
                   futures, error_log, all_movies_data, runs, fetched, outcome,
                   marked0, combined_by, prev_run, ever_success, fetcher>>

\* the save in append mode (mode='a'): the rows are added to those in the file
SaveErrorLogAppend(io_ok) ==
    /\ pc = "save_errlog"
    /\ IF io_ok
       THEN /\ disk_errlog' = <<(IF disk_errlog = <<>> THEN <<>> ELSE disk_errlog[1])
                                 \o error_log>>
            /\ pc' = "loop"
            /\ batch_num' = batch_num + 1
            /\ persisted' = persisted + 1
            /\ UNCHANGED persist_failed
       ELSE /\ pc' = "raised"
            /\ persist_failed' = TRUE
            /\ UNCHANGED <<disk_errlog, batch_num, persisted>>
    /\ UNCHANGED <<disk_catalog, disk_combined, files, metadata_df, config,
                   futures, error_log, all_movies_data, runs, fetched, outcome,
                   marked0, combined_by, prev_run, ever_success, fetcher>>

\* pd.DataFrame(error_log).to_csv(error_log_path, index=False), then the next
\* turn of the for-loop
SaveErrorLog(io_ok) ==
    /\ pc = "save_errlog"
    /\ IF io_ok
       THEN /\ disk_errlog' = <<error_log>>
            /\ pc' = "loop"
            /\ batch_num' = batch_num + 1
            /\ persisted' = persisted + 1
            /\ UNCHANGED persist_failed
       ELSE /\ pc' = "raised"
            /\ persist_failed' = TRUE
            /\ UNCHANGED <<disk_errlog, batch_num, persisted>>
    /\ UNCHANGED <<disk_catalog, disk_combined, files, metadata_df, config,
                   futures, error_log, all_movies_data, runs, fetched, outcome,
                   marked0, combined_by, prev_run, ever_success, fetcher>>

\* a concat that keeps only the last frame
concat_last(frames) == <<frames[Len(frames)]>>

\* pd.concat(all_movies_data, ignore_index=True)
concat(frames) == frames

\* the end of the function without "if all_movies_data": pd.concat of an empty
\* list raises ValueError in the try, and again in the except clause
CombineUnguarded(io_ok) ==
    /\ pc = "combine"
    /\ pc' = IF all_movies_data = <<>> THEN "raised" ELSE "done"
    /\ IF all_movies_data # <<>> /\ io_ok
       THEN /\ disk_combined' = <<concat(all_movies_data)>>
            /\ combined_by' = runs
       ELSE UNCHANGED <<disk_combined, combined_by>>
    /\ UNCHANGED <<disk_catalog, disk_errlog, files, metadata_df, config,
                   batch_num, futures, error_log, all_movies_data, runs, fetched,
                   outcome, marked0, persisted, persist_failed, prev_run,
                   ever_success, fetcher>>

\* The end of parallel_scrape_movies: the combined file, if anything was
\* fetched; a failure to write it is caught and printed.
Combine(io_ok) ==
    /\ pc = "combine"
    /\ pc' = "done"
    /\ IF all_movies_data # <<>> /\ io_ok
       THEN /\ disk_combined' = <<concat(all_movies_data)>>
            /\ combined_by' = runs
       ELSE UNCHANGED <<disk_combined, combined_by>>
    /\ UNCHANGED <<disk_catalog, disk_errlog, files, metadata_df, config,
                   batch_num, futures, error_log, all_movies_data, runs, fetched,
                   outcome, marked0, persisted, persist_failed, prev_run,
                   ever_success, fetcher>>

\* The process is killed: what is in memory is gone, the files stay.
Interrupt ==
    /\ pc \in Running
    /\ pc' = "interrupted"
    /\ metadata_df' = <<>>
    /\ futures' = <<>>
    /\ error_log' = <<>>
    /\ all_movies_data' = <<>>
    /\ batch_num' = 0
    /\ fetched' = <<>>
    /\ outcome' = <<>>
    /\ marked0' = {}
    /\ persisted' = 0
    /\ persist_failed' = FALSE
    /\ UNCHANGED <<disk, config, runs, combined_by, prev_run, ever_success, fetcher>>

Next ==
    \/ \E sr \in 0..MaxCatalog - 1, bs \in 1..MaxBatch, mw \in 1..MaxWorkers :
          Main(sr, bs, mw)
    \/ NextBatch
    \/ WorkerStart
    \/ \E i \in 1..MaxBatch : WorkerFinish(i)
    \/ \E i \in 1..MaxBatch : Collect(i)
    \/ \E io_ok \in BOOLEAN : SaveCatalog(io_ok)
    \/ \E io_ok \in BOOLEAN : SaveErrorLog(io_ok)
    \/ \E io_ok \in BOOLEAN : Combine(io_ok)
    \/ Interrupt

Spec == Init /\ [][Next]_vars

\* ------------------------------------------------- the fetcher alone
\* One call of process_movie_batch on every title, against every pair of
\* documents the two candidate URLs can serve.
FetchInput(t, r1, r2) ==
    [movie_name |-> t, release_year |-> 2015, idx |-> 0,
     web |-> [u \in {url_primary(t, 2015), url_secondary(t, 2015)} |->
                 IF u = url_primary(t, 2015) THEN r1 ELSE r2]]

FetchInit ==
    /\ \E t \in Titles, r1 \in Responses, r2 \in Responses :
          f_in = FetchInput(t, r1, r2)
    /\ f_out = <<>>
    /\ disk_catalog = <<>>
    /\ disk_errlog = <<>>
    /\ disk_combined = <<>>
    /\ files = [f \in FileNames |-> <<>>]
    /\ pc = "idle"
    /\ metadata_df = <<>>
    /\ start_row = 0 /\ batch_size = 1 /\ max_workers = 1
    /\ batch_num = 0
    /\ futures = <<>>
    /\ error_log = <<>>
    /\ all_movies_data = <<>>
    /\ runs = 0
    /\ fetched = <<>>
    /\ outcome = <<>>
    /\ marked0 = {}
    /\ persisted = 0
    /\ persist_failed = FALSE
    /\ combined_by = 0
    /\ prev_run = NoRun
    /\ ever_success = {}

\* the call, to its return; write_ok: whether movie_df.to_csv succeeds
FetchOne(write_ok) ==
    /\ f_out = <<>>
    /\ LET md == [movie_name |-> f_in.movie_name, release_year |-> f_in.release_year,
                  idx |-> f_in.idx]
       IN f_out' = <<[scraped |-> scrape_daily_box_office(md.movie_name,
                                                          md.release_year, f_in.web),
                      write_ok |-> write_ok,
                      returned |-> process_movie_batch(md, f_in.web, write_ok)]>>
    /\ UNCHANGED <<f_in, disk, pc, metadata_df, config, batch_num, futures,
                   error_log, all_movies_data, runs, history>>

FetchNext == \E write_ok \in BOOLEAN : FetchOne(write_ok)

FetchSpec == FetchInit /\ [][FetchNext]_vars

\* ------------------------------------------------------------- claims
\* the positions this run has to fetch: at or after the start offset, with no
\* path when the run loaded the catalog
ToFetch == {p \in 1..Len(metadata_df) : p > start_row /\ p \notin marked0}

InRun == pc \notin {"idle", "interrupted"}

\* C1: in one run, whatever the batch size and the worker count, no entry is
\* fetched twice, only entries at or after the start offset that were unmarked
\* when the run loaded the catalog are fetched, and once the last batch is
\* over every one of them has been fetched.
C1_FetchedExactlyOnce ==
    InRun =>
        /\ \A p \in DOMAIN fetched : fetched[p] <= 1
        /\ \A p \in DOMAIN fetched : fetched[p] = 1 => p \in ToFetch
        /\ pc \in {"combine", "done"} => \A p \in ToFetch : fetched[p] = 1

C1_Witness ==
    /\ pc = "done"
    /\ batch_size = 2
    /\ start_row >= 1
    /\ ToFetch # {}
    /\ \E p \in marked0 : p > start_row

SecondRun ==
    /\ runs >= 2
    /\ InRun
    /\ prev_run.how = "done"
    /\ prev_run.start_row = start_row

\* C2 as stated: a run that follows a completed run on the catalog that run
\* persisted, with the same start offset, fetches nothing.
C2_SecondRunFetchesNothing ==
    SecondRun => \A p \in DOMAIN fetched : fetched[p] = 0

\* C2 amended: such a run fetches the entries that returned Failure in the
\* run before it, each once, and no other entry.
C2_SecondRunRefetchesFailures ==
    SecondRun =>
        /\ \A p \in DOMAIN fetched : fetched[p] >= 1 => p \in prev_run.failed
        /\ pc \in {"combine", "done"} => \A p \in prev_run.failed : fetched[p] = 1

C2_Witness ==
    /\ SecondRun
    /\ pc = "done"
    /\ prev_run.succeeded # {}
    /\ \E p \in prev_run.failed : fetched[p] = 1

\* the batch (0-based) whose rows hold position p
BatchOf(p) == (p - 1 - start_row) \div batch_size

CombinedNow == pc = "done" /\ combined_by = runs

\* C3 as stated: the combined file a run writes lists the frames in catalog
\* order.
C3_CatalogOrder ==
    CombinedNow =>
        \A i, j \in 1..Len(disk_combined[1]) :
            i < j => disk_combined[1][i].pos < disk_combined[1][j].pos

\* C3 amended: the frames collected so far, and the combined file a run
\* writes, hold each successful entry once, batch after batch; inside a batch
\* the order is the order of collection.
C3_BatchOrder ==
    /\ InRun =>
          \A i, j \in 1..Len(all_movies_data) :
              i < j => /\ all_movies_data[i].pos # all_movies_data[j].pos
                       /\ BatchOf(all_movies_data[i].pos) <= BatchOf(all_movies_data[j].pos)
    /\ CombinedNow =>
          /\ disk_combined[1] = all_movies_data
          /\ {all_movies_data[i].pos : i \in 1..Len(all_movies_data)} = Succeeded

C3_Witness ==
    /\ CombinedNow
    /\ \E i, j \in 1..Len(disk_combined[1]) :
          i < j /\ disk_combined[1][i].pos > disk_combined[1][j].pos
    /\ \E i, j \in 1..Len(disk_combined[1]) :
          BatchOf(disk_combined[1][i].pos) < BatchOf(disk_combined[1][j].pos)

\* C4 as stated: after a save that raised, the run goes on (it is in one of
\* its steps, or it has returned).
C4_PersistFailureGoesOn ==
    persist_failed => pc \in Running \cup {"done"}

\* C4 amended: a save that raised ends the run at once: the exception has left
\* parallel_scrape_movies, no entry of a later batch has been fetched and the
\* run has written no combined file.
C4_PersistFailureStops ==
    persist_failed =>
        /\ pc = "raised"
        /\ \A p \in DOMAIN fetched : BatchOf(p) > batch_num => fetched[p] = 0
        /\ combined_by # runs

C4_Witness ==
    /\ persist_failed
    /\ pc = "raised"
    /\ \E p \in ToFetch : fetched[p] = 0

\* the positions whose path is set in the catalog file
DiskMarked ==
    LET d == load_and_validate_metadata(disk_catalog)
    IN {p \in 1..Len(d) : ~isna(d[p].daily_box_office_path)}

AfterPersist == pc \in {"loop", "combine", "done"} /\ persisted >= 1

InCombined == {disk_combined[1][i].pos : i \in 1..Len(disk_combined[1])}

\* C5: once a batch's two saves are done, the catalog file has a path for the
\* entries that succeeded (in this run or before it) and for no other, the
\* error log file has one row for each entry that failed in this run and no
\* other row, and a combined file written by this run holds frames of
\* successful entries only.
C5_PersistedMatchesOutcomes ==
    AfterPersist =>
        /\ DiskMarked = marked0 \cup Succeeded
        /\ DiskMarked \cap Failed = {}
        /\ disk_errlog # <<>>
        /\ Len(disk_errlog[1]) = Cardinality(Failed)
        /\ \A p \in Failed :
              Cardinality({i \in 1..Len(disk_errlog[1]) :
                              /\ disk_errlog[1][i].row = metadata_df[p].idx
                              /\ disk_errlog[1][i].movie = metadata_df[p].movie_name}) = 1
        /\ combined_by = runs => InCombined \subseteq Succeeded

C5_Witness ==
    /\ AfterPersist
    /\ pc = "loop"
    /\ persisted = 1
    /\ Len(futures) = 2
    /\ Cardinality(Succeeded) = 1
    /\ Cardinality(Failed) = 1
    /\ Cardinality(DiskMarked) = 1
    /\ Len(disk_errlog[1]) = 1

C7_DisjointOutputs ==
    /\ \A p, q \in 1..Len(metadata_df) :
          p # q => movie_filename(metadata_df[p].movie_name)
                      # movie_filename(metadata_df[q].movie_name)
    /\ \A i, j \in InFlight :
          i # j => movie_filename(futures[i].movie_data.movie_name)
                      # movie_filename(futures[j].movie_data.movie_name)
    /\ \A p \in 1..Len(metadata_df) :
          ~isna(metadata_df[p].daily_box_office_path) =>
              files[movie_filename(metadata_df[p].movie_name)]
                  = <<[Movie_Name |-> metadata_df[p].movie_name, pos |-> p]>>

\* C8 as stated: the combined file a run writes holds the frame of every entry
\* that returned success in this or in an earlier invocation.
C8_LifetimeUnion ==
    CombinedNow => ever_success \subseteq InCombined

\* C8 amended: the combined file a run writes holds the frames of the entries
\* that returned success in that run, and no other; a run without a success
\* leaves the file as it was.
C8_ThisInvocationOnly ==
    pc = "done" =>
        /\ combined_by = runs => InCombined = Succeeded
        /\ Succeeded = {} => combined_by # runs

C8_Witness ==
    /\ CombinedNow
    /\ runs >= 2
    /\ \E p \in ever_success : p \notin InCombined

\* a document from which the fetcher reads at least one row
Yields(r) == r.kind = "table" /\ \E i \in 1..Len(r.rows) : r.rows[i] = r.hdr

\* C9: the fetcher requests the URL with the year first and the one without
\* it second, stops at the first that yields rows and returns them, says
\* "No data found" only when neither yields; with a transport error on the
\* first and rows on the second, the entry is a success with the second's rows.
C9_CandidateFallback ==
    f_out # <<>> =>
        LET o  == f_out[1].scraped
            u1 == url_primary(f_in.movie_name, f_in.release_year)
            u2 == url_secondary(f_in.movie_name, f_in.release_year)
            w  == f_in.web
        IN /\ o.tried \in {<<u1>>, <<u1, u2>>}
           /\ Yields(w[u1]) => o.tried = <<u1>> /\ o.df # <<>>
           /\ o.df # <<>> =>
                 /\ o.df[1].page = o.tried[Len(o.tried)]
                 /\ Yields(w[o.df[1].page])
                 /\ o.df[1].rows = KeptRows(w[o.df[1].page].rows, w[o.df[1].page].hdr, 1)
           /\ o.error = NoDataFound => ~Yields(w[u1]) /\ ~Yields(w[u2])
           /\ (w[u1].kind = "error" /\ Yields(w[u2])) =>
                 /\ o.df # <<>> /\ o.df[1].page = u2
                 /\ f_out[1].write_ok =>
                       /\ f_out[1].returned.result.success
                       /\ f_out[1].returned.result.data = o.df

C9_Witness ==
    /\ f_out # <<>>
    /\ f_in.web[url_primary(f_in.movie_name, f_in.release_year)].kind = "error"
    /\ Yields(f_in.web[url_secondary(f_in.movie_name, f_in.release_year)])
    /\ f_out[1].returned.result.success
    /\ f_out[1].returned.result.data[1].page
          = url_secondary(f_in.movie_name, f_in.release_year)

\* C10: a worker always returns a result, a failure with its message when the
\* fetch, the parse or the write raised; the run is never ended by a worker's
\* exception; when a batch is over each of its entries has its outcome, and
\* each failed entry has its row in the error log.
C10_ExceptionsBecomeFailures ==
    /\ \A i \in 1..Len(futures) :
          futures[i].st \in {"finished", "yielded"} =>
              /\ ~futures[i].result.raised
              /\ futures[i].result.success \/ futures[i].result.error # ""
    /\ pc = "raised" => persist_failed
    /\ pc \in {"save_errlog", "loop", "combine", "done"} =>
          \A p \in DOMAIN fetched :
              fetched[p] = 1 => outcome[p] \in {"Success", "Failure"}
    /\ (InRun /\ pc # "pool") =>
          \A p \in Failed :
              Cardinality({i \in 1..Len(error_log) :
                              /\ error_log[i].row = metadata_df[p].idx
                              /\ error_log[i].movie = metadata_df[p].movie_name
                              /\ error_log[i].error # ""}) = 1

C10_Witness ==
    /\ pc = "loop"
    /\ Len(futures) = 2
    /\ \E i, j \in 1..Len(futures) :
          /\ futures[i].result.error = ExcMessage
          /\ futures[j].result.success
    /\ \E i \in 1..Len(error_log) : error_log[i].error = ExcMessage

\* the catalog position the i-th future of the batch was submitted for
FuturePos(i) == PosOf(metadata_df, futures[i].movie_data.idx)

FuturePositions == {FuturePos(i) : i \in 1..Len(futures)}

\* C11: the entries submitted to the pool are at or after the start offset and
\* had no path when the run loaded the catalog, an entry waiting for its
\* result has no path in memory either, and the entries are submitted, and
\* taken by the pool's threads, in catalog order: inside a batch and from one
\* batch to the next.
C11_SubmittedInCatalogOrder ==
    InRun =>
        /\ \A i \in 1..Len(futures) :
              /\ FuturePos(i) \in ToFetch
              /\ futures[i].st # "yielded" =>
                    isna(metadata_df[FuturePos(i)].daily_box_office_path)
        /\ \A i, j \in 1..Len(futures) :
              i < j => /\ FuturePos(i) < FuturePos(j)
                       /\ futures[j].st # "pending" => futures[i].st # "pending"
        /\ \A p \in DOMAIN fetched :
              (fetched[p] >= 1 /\ p \notin FuturePositions) =>
                  \A q \in FuturePositions : p < q

C11_Witness ==
    /\ pc = "pool"
    /\ Len(futures) = 2
    /\ futures[1].st = "running"
    /\ futures[2].st = "pending"
    /\ marked0 # {}
    /\ start_row = 0

\* the positions whose path is set in the in-memory catalog
MemMarked ==
    {p \in 1..Len(metadata_df) : ~isna(metadata_df[p].daily_box_office_path)}

\* the path the catalog file holds for position p
DiskPath(file, p) == load_and_validate_metadata(file)[p].daily_box_office_path

\* the step stays inside one run
SameRun == runs' = runs /\ InRun /\ InRun'

\* C12: a path is set in memory only by the collection of a success of that
\* entry, one entry at a time, and never for an entry that failed; an entry
\* with a path is not fetched again; a path that is set, in memory during a
\* run or in the catalog file across runs, is neither removed nor changed; and
\* every path in the file belongs to an entry that returned success.
C12_MarkerFromOneSuccess ==
    [][/\ SameRun =>
             /\ \A p \in MemMarked :
                   /\ p \in MemMarked'
                   /\ metadata_df'[p].daily_box_office_path
                         = metadata_df[p].daily_box_office_path
                   /\ fetched'[p] = fetched[p]
             /\ Cardinality(MemMarked' \ MemMarked) <= 1
             /\ \A p \in MemMarked' \ MemMarked :
                   /\ outcome[p] = "Success"
                   /\ fetched[p] = 1
                   /\ \E i \in 1..Len(futures) :
                         /\ FuturePos(i) = p
                         /\ futures[i].st = "finished"
                         /\ futures'[i].st = "yielded"
                   /\ metadata_df'[p].daily_box_office_path
                         = relative_path(metadata_df[p].movie_name)
             /\ MemMarked' \cap Failed' = {}
             /\ MemMarked' \subseteq marked0' \cup Succeeded'
       /\ \A p \in DiskMarked :
             /\ p \in DiskMarked'
             /\ DiskPath(disk_catalog', p) = DiskPath(disk_catalog, p)
       /\ DiskMarked' \subseteq ever_success'
      ]_vars

C12_Witness ==
    /\ runs >= 2
    /\ pc = "done"
    /\ marked0 # {}
    /\ Failed # {}
    /\ Succeeded # {}
    /\ DiskMarked = marked0 \cup Succeeded
    /\ MemMarked = DiskMarked

\* the batches before batch k that had something to fetch
WorkedBatches(k) == {b \in 0..k - 1 : \E q \in ToFetch : BatchOf(q) = b}

\* C13: the fetches in flight are never more than max_workers and all belong
\* to the batch the loop is at; when an entry has started being fetched, every
\* entry of an earlier batch has its result, and the two saves of every
\* earlier batch that had something to fetch are done: its paths are in the
\* catalog file and its failures in the error log file.
C13_OneBatchAtATime ==
    InRun =>
        /\ Cardinality(InFlight) <= max_workers
        /\ pc = "pool" =>
              \A i \in 1..Len(futures) : BatchOf(FuturePos(i)) = batch_num
        /\ persisted = Cardinality(WorkedBatches(batch_num))
        /\ \A p \in DOMAIN fetched :
              fetched[p] >= 1 =>
                  /\ BatchOf(p) <= batch_num
                  /\ \A q \in ToFetch :
                        BatchOf(q) < BatchOf(p) =>
                            /\ outcome[q] \in {"Success", "Failure"}
                            /\ outcome[q] = "Success" => q \in DiskMarked
                            /\ outcome[q] = "Failure" =>
                                  /\ disk_errlog # <<>>
                                  /\ \E i \in 1..Len(disk_errlog[1]) :
                                        disk_errlog[1][i].row = metadata_df[q].idx

C13_Witness ==
    /\ pc = "pool"
    /\ batch_num >= 1
    /\ persisted >= 1
    /\ InFlight # {}
    /\ \E q \in Failed : BatchOf(q) < batch_num
    /\ \E q \in Succeeded : BatchOf(q) < batch_num

\* C14: in a run that has entered parallel_scrape_movies and in which no entry
\* has returned success, nothing is kept for the combined file and the run
\* writes none; the run is ended by an exception only if a save after a batch
\* raised, never by the lack of successes; and when the loop is over the run
\* has returned normally with every entry it had to fetch failed.
C14_NoSuccessIsNotAnError ==
    (InRun /\ pc # "crashed" /\ Succeeded = {}) =>
        /\ all_movies_data = <<>>
        /\ combined_by # runs
        /\ pc = "raised" => persist_failed
        /\ pc = "done" => /\ ~persist_failed
                          /\ \A p \in ToFetch : outcome[p] = "Failure"

C14_Witness ==
    /\ runs = 2
    /\ pc = "done"
    /\ Succeeded = {}
    /\ Failed # {}
    /\ marked0 # {}
    /\ combined_by = 1
    /\ disk_combined # <<>>

\* the places, in the source table of document r, of the rows that have as
\* many cells as the header
GoodRows(r) == {i \in 1..Len(r.rows) : r.rows[i] = r.hdr}

\* the frame holds the rows of GoodRows(r), each once, in source order
HoldsGoodRows(df, r) ==
    /\ {df.rows[k].row : k \in 1..Len(df.rows)} = GoodRows(r)
    /\ \A k \in 1..Len(df.rows) : df.rows[k].cells = r.hdr
    /\ \A k, l \in 1..Len(df.rows) : k < l => df.rows[k].row < df.rows[l].row

\* C15 as stated: when the document of the first candidate has the heading
\* and a table, the fetcher returns that table's rows with the header's cell
\* count, however many rows are malformed.
C15_TableAlwaysSucceeds ==
    f_out # <<>> =>
        LET o  == f_out[1].scraped
            u1 == url_primary(f_in.movie_name, f_in.release_year)
        IN f_in.web[u1].kind = "table" =>
              /\ o.df # <<>>
              /\ o.df[1].page = u1
              /\ HoldsGoodRows(o.df[1], f_in.web[u1])

\* C15 amended: a table with at least one row of the header's cell count
\* gives a frame of exactly those rows, in source order, whatever the number of
\* malformed rows beside them; a table without any such row is passed over
\* like a page without the section: the next candidate is requested, and the
\* result is "No data found" when that one yields nothing either.
C15_MalformedRowsDropped ==
    f_out # <<>> =>
        LET o  == f_out[1].scraped
            u1 == url_primary(f_in.movie_name, f_in.release_year)
            u2 == url_secondary(f_in.movie_name, f_in.release_year)
            w  == f_in.web
        IN /\ o.df # <<>> =>
                 /\ w[o.df[1].page].kind = "table"
                 /\ GoodRows(w[o.df[1].page]) # {}
                 /\ HoldsGoodRows(o.df[1], w[o.df[1].page])
                 /\ o.df[1].Movie_Name = f_in.movie_name
           /\ (w[u1].kind = "table" /\ GoodRows(w[u1]) # {}) =>
                 o.df # <<>> /\ o.df[1].page = u1
           /\ (w[u1].kind = "table" /\ GoodRows(w[u1]) = {}) =>
                 /\ o.tried = <<u1, u2>>
                 /\ (w[u2].kind = "table" /\ GoodRows(w[u2]) # {}) =>
                       o.df # <<>> /\ o.df[1].page = u2
                 /\ (w[u2].kind \in {"error", "nosection"}
                        \/ (w[u2].kind = "table" /\ GoodRows(w[u2]) = {})) =>
                       o.df = <<>> /\ o.error = NoDataFound

C15_Witness ==
    /\ f_out # <<>>
    /\ LET r == f_in.web[url_primary(f_in.movie_name, f_in.release_year)]
       IN /\ r.kind = "table"
          /\ Len(r.rows) = 2
          /\ r.rows[1] # r.hdr
          /\ r.rows[2] = r.hdr
    /\ f_out[1].scraped.df # <<>>
    /\ Len(f_out[1].scraped.df[1].rows) = 1
    /\ f_out[1].scraped.df[1].rows[1].row = 2

\* C16: a run that has loaded the catalog, and in which no save raises, is on
\* its way to the final summary or has reached it, whatever the start row.
C16_AlwaysReachesSummary ==
    (InRun /\ ~persist_failed) => pc \in Running \cup {"done"}

\* what a future still has to go through: taken by a thread, returned,
\* collected
StepsLeft(st) ==
    CASE st = "pending" -> 3
      [] st = "running" -> 2
      [] st = "finished" -> 1
      [] OTHER -> 0

RECURSIVE SumStepsLeft(_)
SumStepsLeft(i) ==
    IF i = 0 THEN 0 ELSE StepsLeft(futures[i].st) + SumStepsLeft(i - 1)

\* more than the steps one batch can take
BatchWeight == 3 * MaxBatch + 3

\* the steps the run can still take before it returns or raises
Measure ==
    CASE pc = "loop" ->
            IF batch_num >= total_batches THEN 2
            ELSE 2 + (total_batches - batch_num) * BatchWeight
      [] pc = "pool" ->
            4 + (total_batches - batch_num - 1) * BatchWeight
              + SumStepsLeft(Len(futures))
      [] pc = "save_errlog" ->
            3 + (total_batches - batch_num - 1) * BatchWeight
      [] pc = "combine" -> 1
      [] OTHER -> 0

\* a step of the run itself is possible
RunStepEnabled ==
    \/ pc \in {"loop", "save_errlog", "combine"}
    \/ /\ pc = "pool"
       /\ \/ Pending # {} /\ Cardinality(InFlight) < max_workers
          \/ InFlight # {}
          \/ \E i \in 1..Len(futures) : futures[i].st = "finished"
          \/ AllYielded

\* C16, for a start row inside the catalog: every step of a run brings it
\* nearer to its end (the measure is a natural number and goes down), a run
\* that has not ended can always take a step, and it ends at the summary
\* unless a save raised.
C16_RunStepsMakeProgress ==
    [][/\ SameRun => (Measure' < Measure /\ Measure' >= 0)
       /\ (pc' \in Running) => RunStepEnabled'
       /\ (InRun' /\ pc' \notin Running) =>
             \/ pc' = "done"
             \/ pc' = "raised" /\ persist_failed'
             \/ pc' = "crashed" /\ start_row' >= Len(metadata_df')
      ]_vars

\* the windows of batch_size catalog rows from the start row on
Windows == {BatchOf(p) : p \in (start_row + 1)..Len(metadata_df)}

\* C17 as stated: a batch holds batch_size entries to fetch unless it is the
\* last one with something to fetch, and a run that returns has saved after
\* ceil(entries to fetch / batch_size) batches.
C17_BatchesOfFiltered ==
    /\ pc = "pool" =>
          \/ Len(futures) = batch_size
          \/ \A p \in ToFetch : p \in FuturePositions \/ fetched[p] = 1
    /\ pc = "done" =>
          persisted = (Cardinality(ToFetch) + batch_size - 1) \div batch_size

\* C17 amended: the batches are the windows of batch_size consecutive rows of
\* the whole catalog from the start row on; a batch submits the entries of its
\* window that have no path, between one and batch_size of them, a window
\* without any is passed over without a save, and a run that returns has gone
\* through ceil(rows from the start row on / batch_size) windows and saved
\* after each of those that had something to fetch.
C17_WindowsOfCatalog ==
    (InRun /\ pc # "crashed") =>
        /\ pc = "pool" =>
              /\ FuturePositions = {p \in ToFetch : BatchOf(p) = batch_num}
              /\ Len(futures) = Cardinality(FuturePositions)
              /\ Len(futures) \in 1..batch_size
        /\ persisted <= Cardinality(WorkedBatches(batch_num))
        /\ pc \in {"combine", "done"} =>
              /\ batch_num = Cardinality(Windows)
              /\ batch_num
                    = (Len(metadata_df) - start_row + batch_size - 1) \div batch_size
              /\ persisted = Cardinality(WorkedBatches(batch_num))

C17_Witness ==
    /\ pc = "done"
    /\ start_row = 0
    /\ batch_size = 2
    /\ marked0 # {}
    /\ Cardinality(ToFetch) = 2
    /\ persisted = 2

\* the rows of the error log file
ErrRows == IF disk_errlog = <<>> THEN <<>> ELSE disk_errlog[1]

\* the rows of the error log file written for position p
RowsOf(p) ==
    {i \in 1..Len(ErrRows) :
        /\ ErrRows[i].row = metadata_df[p].idx
        /\ ErrRows[i].movie = metadata_df[p].movie_name}

\* the error log file is absent or was written by this run
OwnErrLog == disk_errlog = <<>> \/ persisted >= 1

C19_WriteBeforeMark ==
    /\ InRun =>
          /\ \A p \in MemMarked :
                /\ metadata_df[p].daily_box_office_path
                      = movie_filename(metadata_df[p].movie_name)
                /\ files[metadata_df[p].daily_box_office_path] # <<>>
          /\ \A i \in 1..Len(futures) :
                futures[i].result.success =>
                    files[movie_filename(futures[i].movie_data.movie_name)] # <<>>
    /\ \A p \in DiskMarked :
          /\ DiskPath(disk_catalog, p) \in DOMAIN files
          /\ files[DiskPath(disk_catalog, p)] # <<>>

C19_Witness ==
    /\ pc = "interrupted"
    /\ DiskMarked # {}
    /\ \E f \in FileNames :
          /\ files[f] # <<>>
          /\ files[f][1].pos \notin DiskMarked
          /\ \A p \in DiskMarked : DiskPath(disk_catalog, p) # f

IsPrefix(a, b) == Len(a) <= Len(b) /\ SubSeq(b, 1, Len(a)) = a

\* C20: a run starts with an empty error_log and leaves the error log file
\* alone until its first save; error_log only grows during a run; each save
\* replaces the file by the error_log of the run, so that from one save of a
\* run to the next the file grows by the new failures; and once a run has
\* saved, the file holds one row for each failure of that run's saved batches
\* and no row of an earlier run.
C20_ErrorLogOfThisRunOnly ==
    [][/\ runs' = runs + 1 => (error_log' = <<>> /\ disk_errlog' = disk_errlog)
       /\ SameRun => IsPrefix(error_log, error_log')
       /\ (SameRun /\ persisted' = 0) => disk_errlog' = disk_errlog
       /\ disk_errlog' # disk_errlog =>
             /\ pc = "save_errlog"
             /\ disk_errlog' = <<error_log>>
             /\ persisted >= 1 => IsPrefix(ErrRows, ErrRows')
       /\ (InRun' /\ persisted' >= 1) =>
             /\ Len(ErrRows') = Cardinality({p \in Failed' : BatchOf(p)' < batch_num'})
             /\ \A i \in 1..Len(ErrRows') :
                   \E p \in Failed' : ErrRows'[i].row = metadata_df'[p].idx
      ]_vars

C20_Witness ==
    /\ runs = 2
    /\ prev_run.how = "done"
    /\ pc = "done"
    /\ persisted >= 1
    /\ \E p \in prev_run.failed : p \notin DiskMarked /\ RowsOf(p) = {}
    /\ Failed # {}

=============================================================================
